---- MODULE Spec2Model ----
(***************************************************************************)
(* A model of SocialScraper: the link classifier and request handler of    *)
(* app.py and the browser-session / scraping operations of scraper.py.     *)
(* Strings the code inspects character by character (links, element text)  *)
(* are sequences of one-character strings.                                 *)
(***************************************************************************)
EXTENDS Integers, Sequences, FiniteSets, TLC

(***************************************************************************)
(* Characters and the character classes of Python's re module.             *)
(***************************************************************************)
Lower == {"a","b","c","d","e","f","g","h","i","j","k","l","m","n","o","p","q",
          "r","s","t","u","v","w","x","y","z"}
Upper == {"A","B","C","D","E","F","G","H","I","J","K","L","M","N","O","P","Q",
          "R","S","T","U","V","W","X","Y","Z"}
Digit == {"0","1","2","3","4","5","6","7","8","9"}
\* \w
WordChar == Lower \cup Upper \cup Digit \cup {"_"}
\* [\w-]
WordDash == WordChar \cup {"-"}
\* [\w.] and [\w_.]
WordDot == WordChar \cup {"."}

(***************************************************************************)
(* The regular expressions of app.py are concatenations of items, each a   *)
(* character class with a repetition range, optionally followed by $.      *)
(***************************************************************************)
\* a literal string: every character exactly once
Lit(str) == [i \in 1..Len(str) |-> [cls |-> {str[i]}, lo |-> 1, unbounded |-> FALSE]]
\* c?
Opt(c) == << [cls |-> {c}, lo |-> 0, unbounded |-> FALSE] >>
\* [cls]+
Plus(cls) == << [cls |-> cls, lo |-> 1, unbounded |-> TRUE] >>

\* the largest number of characters item it may take from position pos of str
MaxTake(it, str, pos) ==
    IF it.unbounded THEN Len(str) - pos + 1
    ELSE IF Len(str) - pos + 1 < 1 THEN Len(str) - pos + 1 ELSE 1

\* the items from index i on match str starting at position pos
RECURSIVE MatchFrom(_, _, _, _)
MatchFrom(pat, i, str, pos) ==
    IF i > Len(pat.items)
    THEN (~pat.dollar) \/ pos = Len(str) + 1
    ELSE \E k \in pat.items[i].lo .. MaxTake(pat.items[i], str, pos) :
            /\ \A j \in pos .. (pos + k - 1) : str[j] \in pat.items[i].cls
            /\ MatchFrom(pat, i + 1, str, pos + k)

\* re.match: the pattern matches at the start of the string only
re_match(pat, str) == MatchFrom(pat, 1, str, 1)

\* re.search: the pattern matches at some position of the string
re_search(pat, str) == \E start \in 1 .. (Len(str) + 1) : MatchFrom(pat, 1, str, start)

(***************************************************************************)
(* Literal pieces of the patterns and of the links.                        *)
(***************************************************************************)
S_youtube   == <<"y","o","u","t","u","b","e">>
S_instagram == <<"i","n","s","t","a","g","r","a","m">>
S_tiktok    == <<"t","i","k","t","o","k">>
S_facebook  == <<"f","a","c","e","b","o","o","k">>
S_com       == <<"c","o","m">>
S_dot       == <<".">>
S_slash     == <<"/">>
S_watch     == <<"w","a","t","c","h","?","v","=">>
S_p         == <<"p","/">>
S_video     == <<"/","v","i","d","e","o","/">>
S_posts     == <<"/","p","o","s","t","s","/">>
S_https     == <<"h","t","t","p","s",":","/","/">>
S_http      == <<"h","t","t","p",":","/","/">>

\* platform_patterns: for each platform the (link type, pattern) pairs in the
\* order the dictionary literal declares them
YouTubePatterns ==
    << [kind |-> "channel",
        pat  |-> [items  |-> Lit(S_youtube \o S_dot \o S_com \o S_slash) \o Opt("@")
                             \o Plus(WordDash) \o Opt("/"),
                  dollar |-> TRUE]],
       [kind |-> "video",
        pat  |-> [items  |-> Lit(S_youtube \o S_dot \o S_com \o S_slash \o S_watch)
                             \o Plus(WordDash),
                  dollar |-> FALSE]] >>

InstagramPatterns ==
    << [kind |-> "profile",
        pat  |-> [items  |-> Lit(S_instagram \o S_dot \o S_com \o S_slash)
                             \o Plus(WordDot) \o Opt("/"),
                  dollar |-> TRUE]],
       [kind |-> "post",
        pat  |-> [items  |-> Lit(S_instagram \o S_dot \o S_com \o S_slash \o S_p)
                             \o Plus(WordDash),
                  dollar |-> FALSE]] >>

TikTokPatterns ==
    << [kind |-> "profile",
        pat  |-> [items  |-> Lit(S_tiktok \o S_dot \o S_com \o S_slash \o <<"@">>)
                             \o Plus(WordDot) \o Opt("/"),
                  dollar |-> TRUE]],
       [kind |-> "video",
        pat  |-> [items  |-> Lit(S_tiktok \o S_dot \o S_com \o S_slash \o <<"@">>)
                             \o Plus(WordDot) \o Lit(S_video) \o Plus(Digit),
                  dollar |-> FALSE]] >>

FacebookPatterns ==
    << [kind |-> "profile",
        pat  |-> [items  |-> Lit(S_facebook \o S_dot \o S_com \o S_slash)
                             \o Plus(WordDot) \o Opt("/"),
                  dollar |-> TRUE]],
       [kind |-> "post",
        pat  |-> [items  |-> Lit(S_facebook \o S_dot \o S_com \o S_slash)
                             \o Plus(WordDot) \o Lit(S_posts) \o Plus(WordDash),
                  dollar |-> FALSE]] >>

\* platform_patterns.get(platform, {})
platform_patterns(platform) ==
    CASE platform = "YouTube"   -> YouTubePatterns
      [] platform = "Instagram" -> InstagramPatterns
      [] platform = "TikTok"    -> TikTokPatterns
      [] platform = "Facebook"  -> FacebookPatterns
      [] OTHER                  -> << >>

\* the for loop of validate_social_link from entry i of the table on
RECURSIVE ValidateFrom(_, _, _)
ValidateFrom(patterns, i, link) ==
    IF i > Len(patterns) THEN << FALSE, "invalid" >>
    ELSE IF re_search(patterns[i].pat, link) THEN << TRUE, patterns[i].kind >>
    ELSE ValidateFrom(patterns, i + 1, link)

validate_social_link(platform, link) ==
    ValidateFrom(platform_patterns(platform), 1, link)

(***************************************************************************)
(* scraper.py: text helpers.                                               *)
(***************************************************************************)
Whitespace == {" ", "\n"}

\* str.lstrip()
RECURSIVE LStrip(_)
LStrip(t) ==
    IF t = << >> THEN << >>
    ELSE IF Head(t) \in Whitespace THEN LStrip(Tail(t)) ELSE t

\* str.rstrip(): drop the characters of chars from the end
RECURSIVE RStripChars(_, _)
RStripChars(t, chars) ==
    IF t = << >> THEN << >>
    ELSE IF t[Len(t)] \in chars THEN RStripChars(SubSeq(t, 1, Len(t) - 1), chars) ELSE t

\* str.strip()
Strip(t) == RStripChars(LStrip(t), Whitespace)

\* str.startswith(prefix)
StartsWith(t, prefix) ==
    /\ Len(prefix) <= Len(t)
    /\ SubSeq(t, 1, Len(prefix)) = prefix

\* str.replace(old, ""): remove every occurrence of old, left to right
RECURSIVE Remove(_, _)
Remove(t, old) ==
    IF t = << >> THEN << >>
    ELSE IF StartsWith(t, old) THEN Remove(SubSeq(t, Len(old) + 1, Len(t)), old)
    ELSE << Head(t) >> \o Remove(Tail(t), old)

\* str.split('\n')[0]: the text before the first newline
RECURSIVE FirstLine(_)
FirstLine(t) ==
    IF t = << >> THEN << >>
    ELSE IF Head(t) = "\n" THEN << >>
    ELSE << Head(t) >> \o FirstLine(Tail(t))

\* BaseScraper._format_url
_format_url(url) ==
    RStripChars(IF ~(StartsWith(url, S_http) \/ StartsWith(url, S_https))
                THEN S_https \o url ELSE url,
                {"/"})

(***************************************************************************)
(* scraper.py: the retry policy of BaseScraper.                            *)
(***************************************************************************)
max_retries == 3
retry_delay == 2
\* the default of _safe_get's max_retries parameter
safe_get_retries == 3

\* __init__: "if attempt == self.max_retries - 1", the attempt that raises
LaunchGivesUp_late(att) == att = max_retries
LaunchGivesUp(att) == att = max_retries - 1

\* _safe_get: "if attempt == max_retries - 1", the attempt that returns False
SafeGetGivesUp_late(att) == att = safe_get_retries
SafeGetGivesUp(att) == att = safe_get_retries - 1

(***************************************************************************)
(* scraper.py: what each operation looks up.  A lookup program is the      *)
(* sequence of locator attempts of one operation in source order; every    *)
(* step names the result field, how the attempt is embedded in the control *)
(* flow (style), how the value is read (read), and the first step after    *)
(* the field's chain (after).                                              *)
(*   style "script": execute_script under the operation's outer try        *)
(*         "nested": try / except nesting, next method only on exception   *)
(*         "loop"  : for loop over selectors, break on non-empty text      *)
(*         "retry" : a later single attempt made while the field still     *)
(*                   holds its sentinel                                    *)
(*         "must"  : a lookup whose exception leaves the operation         *)
(***************************************************************************)
NotAvailable == <<"N","o","t"," ","a","v","a","i","l","a","b","l","e">>
Unknown == <<"U","n","k","n","o","w","n">>
S_yt_suffix == <<" ","-"," ","Y","o","u","T","u","b","e">>

Step(f, st, rd, af) == [field |-> f, style |-> st, read |-> rd, after |-> af]

YouTubeProfileProgram ==
    << Step("", "script", "none", 2),
       Step("channel_name", "nested", "text", 5),
       Step("channel_name", "nested", "text", 5),
       Step("channel_name", "nested", "attr", 5),
       Step("subscribers", "nested", "text", 8),
       Step("subscribers", "nested", "text", 8),
       Step("subscribers", "nested", "text", 8),
       Step("channel_name", "retry", "jsline", 9),
       Step("subscribers", "retry", "jstext", 10) >>

YouTubePostProgram ==
    << Step("title", "loop", "text", 5),
       Step("title", "loop", "text", 5),
       Step("title", "loop", "text", 5),
       Step("title", "loop", "text", 5),
       Step("likes", "loop", "text", 9),
       Step("likes", "loop", "text", 9),
       Step("likes", "loop", "text", 9),
       Step("likes", "loop", "text", 9),
       Step("title", "retry", "text", 10) >>

InstagramProfileProgram ==
    << Step("followers", "loop", "text", 4),
       Step("followers", "loop", "text", 4),
       Step("followers", "loop", "text", 4),
       Step("following", "loop", "text", 7),
       Step("following", "loop", "text", 7),
       Step("following", "loop", "text", 7) >>

InstagramPostProgram ==
    << Step("likes", "loop", "text", 4),
       Step("likes", "loop", "text", 4),
       Step("likes", "loop", "text", 4) >>

TikTokProfileProgram ==
    << Step("followers", "must", "raw", 2),
       Step("following", "must", "raw", 3) >>

TikTokPostProgram == << Step("likes", "must", "raw", 2) >>

FacebookProfileProgram == << Step("followers", "must", "raw", 2) >>

FacebookPostProgram == << Step("likes", "must", "raw", 2) >>

Program(plat, op) ==
    CASE plat = "YouTube"   /\ op = "profile" -> YouTubeProfileProgram
      [] plat = "YouTube"   /\ op = "post"    -> YouTubePostProgram
      [] plat = "Instagram" /\ op = "profile" -> InstagramProfileProgram
      [] plat = "Instagram" /\ op = "post"    -> InstagramPostProgram
      [] plat = "TikTok"    /\ op = "profile" -> TikTokProfileProgram
      [] plat = "TikTok"    /\ op = "post"    -> TikTokPostProgram
      [] plat = "Facebook"  /\ op = "profile" -> FacebookProfileProgram
      [] plat = "Facebook"  /\ op = "post"    -> FacebookPostProgram

\* the dictionary literal of each operation: the record a scrape returns,
\* with the values it holds before any lookup (vals: the looked-up values of
\* the operations that build the record only when they return)
ResultRecord(plat, op, vals) ==
    CASE plat = "YouTube" /\ op = "profile" ->
            [platform |-> "YouTube", type |-> "channel",
             channel_name |-> Unknown, subscribers |-> NotAvailable]
      [] plat = "YouTube" /\ op = "post" ->
            [platform |-> "YouTube", type |-> "video",
             title |-> Unknown, likes |-> NotAvailable, views |-> NotAvailable]
      [] plat = "Instagram" /\ op = "profile" ->
            [platform |-> "Instagram", type |-> "profile", followers |-> NotAvailable,
             following |-> NotAvailable, posts |-> NotAvailable]
      [] plat = "Instagram" /\ op = "post" ->
            [platform |-> "Instagram", type |-> "post",
             likes |-> NotAvailable, comments |-> NotAvailable]
      [] plat = "TikTok" /\ op = "profile" ->
            [platform |-> "TikTok", type |-> "profile",
             followers |-> vals["followers"], following |-> vals["following"]]
      [] plat = "TikTok" /\ op = "post" ->
            [platform |-> "TikTok", type |-> "video", likes |-> vals["likes"]]
      [] plat = "Facebook" /\ op = "profile" ->
            [platform |-> "Facebook", type |-> "profile", followers |-> vals["followers"]]
      [] plat = "Facebook" /\ op = "post" ->
            [platform |-> "Facebook", type |-> "post", likes |-> vals["likes"]]

\* the operations that create the record before looking anything up
RecordFirst(plat) == plat \in {"YouTube", "Instagram"}

\* the operations that navigate through _format_url and _safe_get
UsesSafeGet(plat) == plat \in {"YouTube", "Instagram"}

\* "if not self._safe_get(url): raise Exception(...)" (YouTube) against
\* "if not self._safe_get(url): return result" (Instagram)
NavFailureRaises(plat) == plat = "YouTube"

\* what one attempt can observe: the element is absent (the lookup raises),
\* or it is present with some text
Absent == << "<absent>" >>
T_blank == << " " >>
T_count == << " ", "7", "K" >>
T_title == << "A" >> \o S_yt_suffix
T_inner == << "A", "\n", "7" >>
T_inner2 == << "\n", "A" >>

Outcomes(read) ==
    CASE read = "none"   -> { Absent, << >> }
      [] read = "text"   -> { Absent, T_blank, T_count }
      [] read = "attr"   -> { Absent, << >>, T_title }
      [] read = "jsline" -> { Absent, T_inner, T_inner2 }
      [] read = "jstext" -> { Absent, T_count }
      [] read = "raw"    -> { Absent, << >>, T_count }

\* the value an attempt that found its element reads from it
ValueRead(read, t) ==
    CASE read = "text"   -> Strip(t)
      [] read = "attr"   -> Remove(t, S_yt_suffix)
      [] read = "jsline" -> Strip(FirstLine(t))
      [] read = "jstext" -> Strip(t)
      [] OTHER           -> t

\* the "if value:" test that guards the assignment to the record
Accepts(read, t) ==
    CASE read = "text" -> Strip(t) # << >>
      [] read = "raw"  -> TRUE
      [] OTHER         -> t # << >>

\* the sentinel of a field
Sentinel(f) == IF f \in {"channel_name", "title"} THEN Unknown ELSE NotAvailable

\* where control goes after the attempt at step i of prog: present says the
\* element was found, accepted that its value passed the "if value:" test;
\* Len(prog) + 1 is the operation's return statement
Advance(prog, i, present, accepted) ==
    CASE prog[i].style = "script" -> IF present THEN i + 1 ELSE Len(prog) + 1
      [] prog[i].style = "nested" -> IF present THEN prog[i].after ELSE i + 1
      [] prog[i].style = "loop"   -> IF present /\ accepted THEN prog[i].after ELSE i + 1
      [] OTHER                    -> i + 1

\* the 'if result[field] == sentinel:' guards: the first step from i on that
\* is not a retry of a field the record already holds a value for
RECURSIVE SkipResolved(_, _, _)
SkipResolved(prog, i, res) ==
    IF i > Len(prog) THEN i
    ELSE IF prog[i].style = "retry" /\ res[prog[i].field] # Sentinel(prog[i].field)
         THEN SkipResolved(prog, i + 1, res)
         ELSE i

(***************************************************************************)
(* The state of one request: main() of app.py, the scraper it constructs   *)
(* and the browser processes behind it.                                    *)
(***************************************************************************)
VARIABLES
    pc,          \* where the request is: "input", "classify", "init", "configure",
                 \* "nav", "lookup", "return", "rendered", "ended"
    platform,    \* the selectbox value
    link,        \* the text input
    is_valid,    \* validate_social_link's first component
    link_type,   \* validate_social_link's second component
    ui,          \* the banners (st.success, st.error) and the table main has shown
    attempt,     \* the loop variable of BaseScraper.__init__
    ctorLog,     \* the launch attempts and sleeps of __init__, in order
    ctorOutcome, \* __init__: "none", "ok" (returned) or "raised"
    driver,      \* self.driver: NoDriver or a browser process
    live,        \* the browser processes launched and not quit
    launched,    \* the number of browser processes launched
    navAttempt,  \* the loop variable of _safe_get
    navLog,      \* the driver.get calls and sleeps of the navigation, in order
    safeGet,     \* _safe_get's outcome: "none", "true", "false" or "raised"
    step,        \* the next step of the lookup program
    result,      \* the result dictionary, NoRecord while none exists
    locals,      \* values looked up into local variables
    lookups,     \* the attempts made, in order, with what each observed
    opOutcome,   \* scrape_profile / scrape_post: "none", "returned" or "raised"
    data,        \* the record returned to main
    exc,         \* the exception main caught
    dels,        \* how often __del__ has run
    delRaised    \* whether a __del__ call raised

reqVars == << platform, link, is_valid, link_type >>
ctorVars == << attempt, ctorLog, ctorOutcome >>
browserVars == << driver, live, launched >>
navVars == << navAttempt, navLog, safeGet >>
lookVars == << step, result, locals, lookups >>
endVars == << opOutcome, data, exc >>
delVars == << dels, delRaised >>
vars == << pc, ui, reqVars, ctorVars, browserVars, navVars, lookVars, endVars, delVars >>

NoDriver == 0
NoRecord == << >>
NoCause == [attempt |-> 0, kind |-> "none"]
NoExc == [what |-> "none", cause |-> NoCause]

\* the options of the selectbox
Platforms == {"YouTube", "Instagram", "TikTok", "Facebook"}

\* scrape_profile for channel and profile links, scrape_post otherwise
Operation(lt) == IF lt \in {"channel", "profile"} THEN "profile" ELSE "post"

(***************************************************************************)
(* The links a request may carry, and the larger set the classifier is     *)
(* checked on.                                                             *)
(***************************************************************************)
S_example == <<"e","x","a","m","p","l","e">>
S_abc123 == <<"a","b","c","1","2","3">>
S_notaurl == <<"n","o","t","-","a","-","u","r","l">>

Host(name) == name \o S_dot \o S_com

L_yt_channel == S_https \o Host(S_youtube) \o <<"/","@">> \o S_example
L_yt_video == Host(S_youtube) \o S_slash \o S_watch \o S_abc123
L_ig_profile == Host(S_instagram) \o S_slash \o S_example \o S_slash
L_ig_post == S_https \o Host(S_instagram) \o S_slash \o S_p \o <<"X","Y","Z">>
L_tt_profile == Host(S_tiktok) \o <<"/","@","a",".","b","/">>
L_tt_video == S_https \o Host(S_tiktok) \o <<"/","@","a",".","b">> \o S_video \o <<"1","2">>
L_fb_profile == S_https \o Host(S_facebook) \o <<"/","a",".","b">>
L_fb_post == Host(S_facebook) \o <<"/","a",".","b">> \o S_posts \o <<"c","-","d">>

RequestLinks ==
    { << >>, S_notaurl, L_yt_channel, L_yt_video, L_ig_profile, L_ig_post,
      L_tt_profile, L_tt_video, L_fb_profile, L_fb_post }

Schemes == { << >>, S_https }
Hosts ==
    { Host(S_youtube), Host(S_instagram), Host(S_tiktok), Host(S_facebook),
      S_youtube \o <<"x">> \o S_com }
Paths ==
    { << >>, S_slash, <<"/","@">> \o S_example, S_slash \o S_example \o S_slash,
      S_slash \o S_example \o <<"/","/">>, S_slash \o S_watch \o S_abc123,
      S_slash \o S_watch, S_slash \o S_p \o <<"X","Y","Z">>, <<"/","p">>,
      <<"/","@","a",".","b">>, <<"/","@","a",".","b">> \o S_video \o <<"1","2">>,
      <<"/","@","a",".","b">> \o S_video \o <<"x">>,
      <<"/","a",".","b">> \o S_posts \o <<"c","-","d">>,
      <<"/","a","-","b">>,
      S_slash \o S_watch \o S_abc123 \o <<" ">> \o Host(S_youtube) \o <<"/","@">> \o S_example }

Links == { sch \o h \o pa : sch \in Schemes, h \in Hosts, pa \in Paths } \cup RequestLinks

\* the platforms the classifier is checked on: the selectbox's and one it
\* has no table for
AnyPlatform == Platforms \cup {"LinkedIn"}

(***************************************************************************)
(* Initial state: nothing submitted, no scraper, no browser.               *)
(***************************************************************************)
Init ==
    /\ pc = "input"
    /\ platform = ""
    /\ link = << >>
    /\ is_valid = FALSE
    /\ link_type = ""
    /\ ui = {}
    /\ attempt = 0
    /\ ctorLog = << >>
    /\ ctorOutcome = "none"
    /\ driver = NoDriver
    /\ live = {}
    /\ launched = 0
    /\ navAttempt = 0
    /\ navLog = << >>
    /\ safeGet = "none"
    /\ step = 0
    /\ result = NoRecord
    /\ locals = << >>
    /\ lookups = << >>
    /\ opOutcome = "none"
    /\ data = NoRecord
    /\ exc = NoExc
    /\ dels = 0
    /\ delRaised = FALSE

(***************************************************************************)
(* app.py main, lines 41-66: input, classification, the validity gate.     *)
(***************************************************************************)
\* "if not is_valid: st.error(...); return"
MainStops_never(valid) == FALSE
MainStops(valid) == ~valid

Submit(p, l) ==
    /\ pc = "input"
    /\ platform' = p
    /\ link' = l
    /\ IF l = << >>
       THEN /\ pc' = "ended"
            /\ UNCHANGED << is_valid, link_type, ui >>
       ELSE LET v == validate_social_link(p, l) IN
            /\ is_valid' = v[1]
            /\ link_type' = v[2]
            /\ IF MainStops(v[1])
               THEN /\ ui' = ui \cup {"error_invalid"}
                    /\ pc' = "ended"
               ELSE /\ ui' = ui \cup {"success"}
                    /\ pc' = "init"
    /\ UNCHANGED << ctorVars, browserVars, navVars, lookVars, endVars, delVars >>

\* main's "except Exception as e: st.error(...)": the request ends with the
\* error message
Caught(what, cause) ==
    /\ exc' = [what |-> what, cause |-> cause]
    /\ ui' = ui \cup {"error_scrape"}
    /\ pc' = "ended"

(***************************************************************************)
(* scraper.py BaseScraper.__init__, lines 27-45: one iteration of the      *)
(* launch loop.  out is what the iteration meets: "ok", "no_browser" (an   *)
(* exception before webdriver.Chrome returns) or "after_launch" (the       *)
(* browser is running and assigned to self.driver, then line 37 raises).   *)
(***************************************************************************)
LaunchOutcomes == {"ok", "no_browser", "after_launch"}

LaunchEv(n, out) == [ev |-> "launch", n |-> n, out |-> out]
SleepEv == [ev |-> "sleep", n |-> retry_delay, out |-> ""]

\* where the request continues once the base constructor has returned
AfterBaseInit(plat) == IF plat = "Instagram" THEN "configure" ELSE "nav"

LaunchAttempt(out) ==
    /\ pc = "init"
    /\ LET id == launched + 1
           launches == out \in {"ok", "after_launch"}
           cause == [attempt |-> attempt + 1, kind |-> out]
       IN
       /\ launched' = IF launches THEN id ELSE launched
       /\ live' = IF launches THEN live \cup {id} ELSE live
       /\ driver' = IF launches THEN id ELSE driver
       /\ IF out = "ok"
          THEN \* break
               /\ ctorLog' = Append(ctorLog, LaunchEv(attempt + 1, out))
               /\ ctorOutcome' = "ok"
               /\ pc' = AfterBaseInit(platform)
               /\ UNCHANGED << attempt, ui, exc >>
          ELSE IF LaunchGivesUp(attempt)
          THEN \* raise Exception("Failed to initialize Chrome driver ...")
               /\ ctorLog' = Append(ctorLog, LaunchEv(attempt + 1, out))
               /\ ctorOutcome' = "raised"
               /\ Caught("init", cause)
               /\ UNCHANGED attempt
          ELSE \* time.sleep(self.retry_delay), then the next iteration or,
               \* the range exhausted, the end of __init__
               /\ ctorLog' = ctorLog \o << LaunchEv(attempt + 1, out), SleepEv >>
               /\ attempt' = attempt + 1
               /\ IF attempt + 1 < max_retries
                  THEN UNCHANGED << pc, ctorOutcome >>
                  ELSE /\ ctorOutcome' = "ok"
                       /\ pc' = AfterBaseInit(platform)
               /\ UNCHANGED << ui, exc >>
    /\ UNCHANGED << reqVars, navVars, lookVars, opOutcome, data, delVars >>

(***************************************************************************)
(* scraper.py InstagramScraper.__init__ / _configure_instagram, 310-321.   *)
(***************************************************************************)
ConfigureInstagram(out) ==
    /\ pc = "configure"
    /\ IF driver = NoDriver \/ out = "ok"
       THEN /\ pc' = "nav"
            /\ UNCHANGED << ui, exc, ctorOutcome >>
       ELSE /\ ctorOutcome' = "raised"
            /\ Caught("configure", NoCause)
    /\ UNCHANGED << reqVars, attempt, ctorLog, browserVars, navVars, lookVars,
                    opOutcome, data, delVars >>

(***************************************************************************)
(* scraper.py BaseScraper._safe_get, lines 97-108, one iteration of its    *)
(* loop, as called by the YouTube and Instagram operations on the          *)
(* formatted URL; with what the caller does with a False return.           *)
(***************************************************************************)
GetEv(url, ok) == [ev |-> "get", url |-> url, ok |-> ok, secs |-> 0]
NavSleepEv == [ev |-> "sleep", url |-> << >>, ok |-> FALSE, secs |-> retry_delay]

SafeGetAttempt(out) ==
    /\ pc = "nav"
    /\ UsesSafeGet(platform)
    /\ LET url == _format_url(link)
           op == Operation(link_type)
           prog == Program(platform, op)
           \* self.driver.get(url) raises on a missing driver too
           ok == out = "ok" /\ driver # NoDriver
           givesUp == ~ok /\ SafeGetGivesUp(navAttempt)
           sleeps == ~ok /\ ~givesUp
           \* the final "return False" after the loop
           exhausted == sleeps /\ navAttempt + 1 >= safe_get_retries
           returnsFalse == givesUp \/ exhausted
           \* Instagram builds its record before it navigates
           early == IF platform = "Instagram" THEN ResultRecord(platform, op, << >>)
                    ELSE result
       IN
       /\ navLog' = navLog \o << GetEv(url, ok) >> \o (IF sleeps THEN << NavSleepEv >> ELSE << >>)
       /\ navAttempt' = IF sleeps THEN navAttempt + 1 ELSE navAttempt
       /\ IF ok
          THEN /\ safeGet' = "true"
               /\ result' = ResultRecord(platform, op, << >>)
               /\ step' = 1
               /\ pc' = "lookup"
               /\ UNCHANGED << ui, endVars >>
          ELSE IF returnsFalse
          THEN /\ safeGet' = "false"
               /\ result' = early
               /\ IF NavFailureRaises(platform)
                  THEN /\ opOutcome' = "raised"
                       /\ Caught("navigation", NoCause)
                       /\ UNCHANGED << step, data >>
                  ELSE /\ step' = Len(prog) + 1
                       /\ pc' = "return"
                       /\ UNCHANGED << ui, endVars >>
          ELSE /\ result' = early
               /\ UNCHANGED << pc, ui, safeGet, step, endVars >>
    /\ UNCHANGED << reqVars, ctorVars, browserVars, locals, lookups, delVars >>

(***************************************************************************)
(* scraper.py TikTokScraper / FacebookScraper, lines 416, 433, 449, 464:   *)
(* "self.driver.get(url)" on the URL as given, outside any try.            *)
(***************************************************************************)
DirectGet(out) ==
    /\ pc = "nav"
    /\ ~UsesSafeGet(platform)
    /\ navLog' = Append(navLog, GetEv(link, out = "ok" /\ driver # NoDriver))
    /\ IF out = "ok" /\ driver # NoDriver
       THEN /\ step' = 1
            /\ pc' = "lookup"
            /\ UNCHANGED << ui, endVars >>
       ELSE /\ opOutcome' = "raised"
            /\ Caught("navigation", NoCause)
            /\ UNCHANGED << step, data >>
    /\ UNCHANGED << reqVars, ctorVars, browserVars, navAttempt, safeGet, result,
                    locals, lookups, delVars >>

(***************************************************************************)
(* One locator attempt of scrape_profile / scrape_post.                    *)
(***************************************************************************)
\* a "must" lookup that does not find its element raises out of the operation
\* (lines 418-430, 435-445, 451-461, 466-475)
LookupRaises(style, present) == style = "must" /\ ~present

Lookup(out) ==
    /\ pc = "lookup"
    /\ LET prog == Program(platform, Operation(link_type))
           s == prog[step]
           present == out # Absent
           accepted == present /\ Accepts(s.read, out)
           stores == accepted /\ s.field # ""
           res1 == IF stores /\ RecordFirst(platform)
                   THEN [result EXCEPT ![s.field] = ValueRead(s.read, out)]
                   ELSE result
           loc1 == IF stores /\ ~RecordFirst(platform)
                   THEN (s.field :> ValueRead(s.read, out)) @@ locals
                   ELSE locals
           next == SkipResolved(prog, Advance(prog, step, present, accepted), res1)
       IN
       /\ step <= Len(prog)
       /\ out \in Outcomes(s.read)
       /\ lookups' = Append(lookups, [step |-> step, out |-> out])
       /\ IF LookupRaises(s.style, present)
          THEN /\ opOutcome' = "raised"
               /\ Caught("lookup", NoCause)
               /\ UNCHANGED << step, result, locals, data >>
          ELSE /\ result' = res1
               /\ locals' = loc1
               /\ step' = next
               /\ pc' = IF next > Len(prog) THEN "return" ELSE "lookup"
               /\ UNCHANGED << ui, endVars >>
    /\ UNCHANGED << reqVars, ctorVars, browserVars, navVars, delVars >>

(***************************************************************************)
(* "return result" / "return {...}" and app.py main, lines 76-80: the      *)
(* returned record is rendered as a table.                                 *)
(***************************************************************************)
ReturnResult ==
    /\ pc = "return"
    /\ LET rec == IF RecordFirst(platform) THEN result
                  ELSE ResultRecord(platform, Operation(link_type), locals)
       IN
       /\ result' = rec
       /\ data' = rec
       /\ opOutcome' = "returned"
       /\ ui' = IF rec # NoRecord THEN ui \cup {"table"} ELSE ui
       /\ pc' = IF rec # NoRecord THEN "rendered" ELSE "ended"
    /\ UNCHANGED << reqVars, ctorVars, browserVars, navVars, step, locals, lookups,
                    exc, delVars >>

(***************************************************************************)
(* app.py main, lines 82-101: the export buttons under the table, still    *)
(* inside main's try.  button is the one pressed in this run of the script *)
(* ("none" when neither is); out is whether writing the export raises      *)
(* (df.to_csv / df.to_excel("temp.xlsx") / open / st.download_button).     *)
(***************************************************************************)
ExportButtons == {"none", "csv", "excel"}

Export(button, out) ==
    /\ pc = "rendered"
    /\ IF button = "none" \/ out = "ok"
       THEN \* nothing pressed, or the download offered: the run ends with
            \* the banners and the table it has shown
            /\ pc' = "ended"
            /\ UNCHANGED << ui, exc >>
       ELSE Caught("export", NoCause)
    /\ UNCHANGED << reqVars, ctorVars, browserVars, navVars, lookVars, opOutcome, data,
                    delVars >>

(***************************************************************************)
(* scraper.py BaseScraper.__del__, lines 84-89, run when the scraper is no *)
(* longer referenced (main has returned), and possibly again.              *)
(***************************************************************************)
MaxDel == 2

\* "try: self.driver.quit() except: pass"
DelPropagates_noexcept(out) == out = "raise"
DelPropagates(out) == FALSE

\* "if hasattr(self, 'driver') and self.driver"
DelQuits(d) == d # NoDriver

Del(out) ==
    /\ pc = "ended"
    /\ ctorLog # << >>
    /\ dels < MaxDel
    /\ dels' = dels + 1
    /\ IF DelQuits(driver)
       THEN /\ live' = IF out = "ok" THEN live \ {driver} ELSE live
            /\ delRaised' = (delRaised \/ DelPropagates(out))
       ELSE UNCHANGED << live, delRaised >>
    /\ UNCHANGED << pc, ui, reqVars, ctorVars, driver, launched, navVars, lookVars, endVars >>

Next ==
    \/ \E p \in Platforms, l \in RequestLinks : Submit(p, l)
    \/ \E out \in LaunchOutcomes : LaunchAttempt(out)
    \/ \E out \in {"ok", "raise"} : ConfigureInstagram(out)
    \/ \E out \in {"ok", "fail"} : SafeGetAttempt(out)
    \/ \E out \in {"ok", "fail"} : DirectGet(out)
    \/ \E out \in Outcomes("none") \cup Outcomes("text") \cup Outcomes("attr")
                  \cup Outcomes("jsline") \cup Outcomes("jstext") \cup Outcomes("raw") :
          Lookup(out)
    \/ ReturnResult
    \/ \E button \in ExportButtons, out \in {"ok", "raise"} : Export(button, out)
    \/ \E out \in {"ok", "raise"} : Del(out)

Spec == Init /\ [][Next]_vars

(***************************************************************************)
(* The classifier on its own: every platform and every link of Links.      *)
(***************************************************************************)
InitClassify ==
    /\ pc = "classify"
    /\ platform \in AnyPlatform
    /\ link \in Links
    /\ is_valid = FALSE
    /\ link_type = ""
    /\ ui = {}
    /\ attempt = 0
    /\ ctorLog = << >>
    /\ ctorOutcome = "none"
    /\ driver = NoDriver
    /\ live = {}
    /\ launched = 0
    /\ navAttempt = 0
    /\ navLog = << >>
    /\ safeGet = "none"
    /\ step = 0
    /\ result = NoRecord
    /\ locals = << >>
    /\ lookups = << >>
    /\ opOutcome = "none"
    /\ data = NoRecord
    /\ exc = NoExc
    /\ dels = 0
    /\ delRaised = FALSE

Classify ==
    /\ pc = "classify"
    /\ LET v == validate_social_link(platform, link) IN
       /\ is_valid' = v[1]
       /\ link_type' = v[2]
    /\ pc' = "classified"
    /\ UNCHANGED << platform, link, ui, ctorVars, browserVars, navVars, lookVars,
                    endVars, delVars >>

NextClassify == Classify

SpecClassify == InitClassify /\ [][NextClassify]_vars

(***************************************************************************)
(* Properties.                                                             *)
(***************************************************************************)
\* the positions of log whose event is ev
EventsAt(log, ev) == { i \in 1..Len(log) : log[i].ev = ev }

\* some driver.get of the request loaded the page
NavSucceeded == \E i \in EventsAt(navLog, "get") : navLog[i].ok

\* the navigation is over and no driver.get loaded the page
NavFailed ==
    /\ navLog # << >>
    /\ ~NavSucceeded
    /\ pc \in {"return", "ended"}

\* C1: when every navigation attempt has failed, the operation ends by
\* raising to its caller and never returns a record (nor is a table shown).
C1_NavigationFailureRaises ==
    NavFailed => (opOutcome # "returned" /\ data = NoRecord /\ pc # "return"
                  /\ (pc = "ended" => opOutcome = "raised"))

\* the field names an operation declares, apart from "platform" and "type"
DeclaredFields(plat, op) ==
    CASE plat = "YouTube"   /\ op = "profile" -> {"channel_name", "subscribers"}
      [] plat = "YouTube"   /\ op = "post"    -> {"title", "likes", "views"}
      [] plat = "Instagram" /\ op = "profile" -> {"followers", "following", "posts"}
      [] plat = "Instagram" /\ op = "post"    -> {"likes", "comments"}
      [] plat = "TikTok"    /\ op = "profile" -> {"followers", "following"}
      [] plat = "TikTok"    /\ op = "post"    -> {"likes"}
      [] plat = "Facebook"  /\ op = "profile" -> {"followers"}
      [] plat = "Facebook"  /\ op = "post"    -> {"likes"}

\* the attempts made for field f, in the order made
AttemptsFor(f) ==
    SelectSeq(lookups,
              LAMBDA a : Program(platform, Operation(link_type))[a.step].field = f)

\* an attempt resolved its field: element present, text not empty once trimmed
Resolved(a) == a.out # Absent /\ Strip(a.out) # << >>

\* C2: once navigation has succeeded no field failure makes the operation
\* raise, and in the returned record every field none of whose attempts
\* resolved holds the sentinel.
C2_FieldFailureAbsorbed ==
    NavSucceeded =>
        /\ opOutcome # "raised"
        /\ opOutcome = "returned" =>
              \A f \in DeclaredFields(platform, Operation(link_type)) :
                  (\A i \in 1..Len(AttemptsFor(f)) : ~Resolved(AttemptsFor(f)[i]))
                      => data[f] = Sentinel(f)

\* C3: the record's key set is fixed by (platform, kind), lookups never
\* change it, and once the page has loaded the operation always ends by
\* returning a record with exactly that key set, whatever fields resolved.
C3_FullKeySet ==
    LET keys == DeclaredFields(platform, Operation(link_type)) \cup {"platform", "type"} IN
    /\ result # NoRecord => DOMAIN result = keys
    /\ (NavSucceeded /\ pc = "ended") => (opOutcome = "returned" /\ DOMAIN data = keys)

\* log is attempts of kind ev alternating with sleeps of retry_delay seconds:
\* an attempt at every odd position, a sleep at every even one
Alternates(log, ev, delayField) ==
    \A i \in 1..Len(log) :
        IF i % 2 = 1 THEN log[i].ev = ev
        ELSE log[i].ev = "sleep" /\ log[i][delayField] = retry_delay

\* the constructor is over
CtorDone == ctorOutcome # "none"

\* C4: the constructor's attempts are numbered 1, 2, ... with exactly one
\* retry_delay sleep between consecutive attempts and none after the last; it
\* stops at the first successful attempt (one attempt and no sleep when the
\* first succeeds); when all fail it makes exactly max_retries attempts and
\* raises the error of the last one.
C4_LaunchRetryPolicy ==
    LET tries == EventsAt(ctorLog, "launch") IN
    /\ Alternates(ctorLog, "launch", "n")
    /\ \A i \in tries : ctorLog[i].n = (i + 1) \div 2
    /\ \A i \in tries : ctorLog[i].out = "ok" => i = Len(ctorLog)
    /\ Cardinality(tries) <= max_retries
    /\ CtorDone =>
          /\ ctorLog # << >>
          /\ ctorLog[Len(ctorLog)].ev = "launch"
          /\ IF ctorLog[Len(ctorLog)].out = "ok"
             THEN ctorOutcome = "ok" \/ exc.what = "configure"
             ELSE /\ ctorOutcome = "raised"
                  /\ Cardinality(tries) = max_retries
                  /\ exc = [what |-> "init",
                            cause |-> [attempt |-> max_retries,
                                       kind |-> ctorLog[Len(ctorLog)].out]]

\* C4 witness: three failed launches, two sleeps, then the raise
C4_Witness ==
    /\ ctorOutcome = "raised"
    /\ exc.what = "init"
    /\ Len(ctorLog) = 2 * max_retries - 1
    /\ ctorLog[1].out = "after_launch"
    /\ ctorLog[Len(ctorLog)].out = "no_browser"

\* _safe_get has returned
SafeGetDone == safeGet # "none"

\* C5: _safe_get never raises; its driver.get calls alternate with
\* retry_delay sleeps, none after the last call; it returns True at the first
\* call that succeeds and False after exactly safe_get_retries failed calls.
C5_SafeGetPolicy ==
    LET gets == EventsAt(navLog, "get") IN
    UsesSafeGet(platform) =>
        /\ safeGet # "raised"
        /\ Alternates(navLog, "get", "secs")
        /\ \A i \in gets : navLog[i].ok => i = Len(navLog)
        /\ Cardinality(gets) <= safe_get_retries
        /\ (navLog # << >> /\ navLog[Len(navLog)].ev = "get") => SafeGetDone
        /\ SafeGetDone =>
              /\ navLog # << >>
              /\ navLog[Len(navLog)].ev = "get"
              /\ safeGet = (IF navLog[Len(navLog)].ok THEN "true" ELSE "false")
              /\ safeGet = "false" => Cardinality(gets) = safe_get_retries

\* C5 witness: three failed driver.get calls, two sleeps, False returned
C5_Witness ==
    /\ safeGet = "false"
    /\ Len(navLog) = 2 * safe_get_retries - 1
    /\ \A i \in EventsAt(navLog, "get") : ~navLog[i].ok

\* the scraper is out of use once __del__ has run
OutOfUse == dels >= 1

\* C6: a scraper never has more than one launched and not yet quit browser,
\* and once it is out of use every browser it launched has been quit.
C6_EveryBrowserQuit ==
    /\ Cardinality(live) <= 1
    /\ OutOfUse => live = {}

\* C7: no __del__ call raises, whatever the state of the session.
C7_DelNeverRaises == delRaised = FALSE

\* C7 witness: after a start that failed with a browser already launched,
\* __del__ has run twice and quit() raised in both
C7_Witness ==
    /\ dels = 2
    /\ ctorOutcome = "raised"
    /\ exc.what = "init"
    /\ driver # NoDriver
    /\ driver \in live

\* the steps of prog that belong to the fallback chain of field f
ChainSteps(prog, f) ==
    { i \in 1..Len(prog) : prog[i].field = f /\ prog[i].style \in {"nested", "loop"} }

\* the fields an operation resolves through a fallback chain of locators
ChainFields(prog) == { prog[i].field : i \in { j \in 1..Len(prog) : ChainSteps(prog, prog[j].field) # {} } }

\* the attempts made so far on the chain of field f
ChainAttempts(prog, f) == SelectSeq(lookups, LAMBDA a : a.step \in ChainSteps(prog, f))

\* control has left the chain of field f
PastChain(prog, f) ==
    \/ pc \in {"return", "ended"}
    \/ pc = "lookup" /\ \A i \in ChainSteps(prog, f) : i < step

\* C8: on every started chain the locators are attempted in declared order,
\* each once, and no attempt follows one that resolved the field; once
\* control has left the chain, either the last attempt resolved the field and
\* the record holds its value, or every locator of the chain was attempted
\* (an absent element or an empty text does not end the chain).
C8_FirstMatchInOrder ==
    pc \in {"lookup", "return", "ended"} /\ lookups # << >> =>
    LET prog == Program(platform, Operation(link_type)) IN
    \A f \in ChainFields(prog) :
        LET att == ChainAttempts(prog, f)
            chain == ChainSteps(prog, f)
            first == CHOOSE i \in chain : \A j \in chain : i <= j
            last == att[Len(att)]
        IN
        att # << >> =>
            /\ \A i \in 1..Len(att) : att[i].step = first + i - 1
            /\ \A i \in 1..(Len(att) - 1) : ~Resolved(att[i])
            /\ PastChain(prog, f) =>
                  IF Resolved(last)
                  THEN result[f] = ValueRead(prog[last.step].read, last.out)
                  ELSE Len(att) = Cardinality(chain)

\* the pattern matches somewhere in the link
Matches(pat, l) == \E start \in 1..(Len(l) + 1) : MatchFrom(pat, 1, l, start)

L_yt_watch == S_https \o Host(S_youtube) \o S_slash \o S_watch \o S_abc123
L_yt_both ==
    Host(S_youtube) \o S_slash \o S_watch \o S_abc123 \o <<" ">> \o Host(S_youtube)
    \o <<"/","@">> \o S_example

\* C9: the classifier returns (True, kind) for the first kind, in the table
\* order of the platform, whose pattern matches the link, and (False,
\* "invalid") exactly when no pattern of the platform matches, an unknown
\* platform included; with the four scenarios of the specification.
C9_FirstMatchingKind ==
    pc = "classified" =>
    LET pats == platform_patterns(platform)
        M == { i \in 1..Len(pats) : Matches(pats[i].pat, link) }
    IN
    /\ is_valid = (M # {})
    /\ M = {} => link_type = "invalid"
    /\ M # {} => \E i \in M : (\A j \in M : i <= j) /\ link_type = pats[i].kind
    /\ platform \notin Platforms => ~is_valid
    /\ (platform = "YouTube" /\ link = L_yt_channel) => (is_valid /\ link_type = "channel")
    /\ (platform = "YouTube" /\ link = L_yt_watch) => (is_valid /\ link_type = "video")
    /\ (platform = "Instagram" /\ link = L_ig_post) => (is_valid /\ link_type = "post")
    /\ (platform = "TikTok" /\ link = S_notaurl) => (~is_valid /\ link_type = "invalid")

\* C9 witness: a link both YouTube patterns match is classified by the first
C9_Witness ==
    /\ pc = "classified"
    /\ platform = "YouTube"
    /\ link = L_yt_both
    /\ Matches(YouTubePatterns[1].pat, link)
    /\ Matches(YouTubePatterns[2].pat, link)
    /\ is_valid
    /\ link_type = "channel"

\* C10: a link classified invalid ends the request with the error shown and
\* no scraper, browser or navigation; a scraper is only ever constructed, and
\* a browser launched, after a classification that returned valid.
C10_InvalidStopsBeforeBrowser ==
    /\ (pc # "input" /\ link # << >> /\ ~is_valid) =>
          /\ pc = "ended"
          /\ "error_invalid" \in ui
          /\ ctorLog = << >>
          /\ launched = 0
          /\ live = {}
          /\ driver = NoDriver
          /\ navLog = << >>
    /\ (ctorLog # << >> \/ launched > 0 \/ navLog # << >>) =>
          /\ is_valid
          /\ Matches(platform_patterns(platform)[1].pat, link)
             \/ Matches(platform_patterns(platform)[2].pat, link)

\* C10 witness: an invalid link has been refused
C10_Witness ==
    /\ pc = "ended"
    /\ link = L_ig_post
    /\ platform = "Facebook"
    /\ ~is_valid
    /\ "error_invalid" \in ui
    /\ launched = 0

\* C12: in every variant, every driver.get of the request is given the URL as
\* normalised by _format_url (a scheme in front, no trailing slash), the
\* navigation is the bounded-retry _safe_get (it ends with True, or with False
\* after its retries), and no field is looked up before it returned True.
C12_FormatThenSafeGetThenLookup ==
    /\ \A i \in EventsAt(navLog, "get") :
          /\ navLog[i].url = _format_url(link)
          /\ StartsWith(navLog[i].url, S_http) \/ StartsWith(navLog[i].url, S_https)
          /\ navLog[i].url[Len(navLog[i].url)] # "/"
    /\ lookups # << >> => safeGet = "true"
    /\ pc = "lookup" => safeGet = "true"
    /\ NavFailed => (safeGet = "false"
                     /\ Cardinality(EventsAt(navLog, "get")) = safe_get_retries)

\* an exception was raised on the scraping path of the request
ScrapeRaised == ctorOutcome = "raised" \/ opOutcome = "raised"

\* C11: an exception raised by the constructor or by scrape_profile /
\* scrape_post is caught by main, which ends the request with the error
\* message and no table; and every request that reached the scraper ends
\* with the table or with the error message, never with both.
C11_SingleErrorBoundary ==
    /\ ScrapeRaised =>
          /\ pc = "ended"
          /\ exc.what # "none"
          /\ "error_scrape" \in ui
          /\ "table" \notin ui
    /\ (pc = "ended" /\ ctorLog # << >>) =>
          ("table" \in ui) # ("error_scrape" \in ui)

====
